---- MODULE Spec2Model ----
(***************************************************************************)
(* Capability composition layer of python-kasa: the per-module feature     *)
(* registry (kasa/module.py), the capability-gated SmartBulb facade        *)
(* (kasa/smart/smartbulb.py), the light strip effects                      *)
(* (kasa/iot/iotlightstrip.py) and the emeter statistics conversion        *)
(* (kasa/iot/modules/emeter.py).                                           *)
(*                                                                         *)
(* Every call is one atomic action.  `result` describes the most recent    *)
(* call (operation, arguments, outcome) and `requests` is the list of      *)
(* requests that call handed to the protocol's query().                    *)
(***************************************************************************)
EXTENDS Integers, Sequences, FiniteSets, TLC

VARIABLES
    module_features,    \* Module._module_features, one registry per module
    _info,              \* SmartDevice._info, one blob per bulb
    modules,            \* SmartDevice.modules (names), per bulb
    sys_info,           \* the light strip's sys_info (None before update)
    EFFECT_MAPPING_V1,  \* the shared built-in effect catalog
    data,               \* the emeter's raw statistics series
    _last_update,       \* the last response, one slice per module (Module.data)
    in_flight,          \* the request of an update() awaiting its answer
    result,             \* the last call and its outcome
    requests            \* requests the last call passed to query()

vars == <<module_features, _info, modules, sys_info, EFFECT_MAPPING_V1,
          data, _last_update, in_flight, result, requests>>

\* Python's None, a value different from every mapping and number.
None == [NoneType |-> TRUE]

\* The empty mapping {} (a function with empty domain).
EmptyDict == <<>>

NoCall == [op |-> "none"]

(***************************************************************************)
(* Built-in effect catalog (kasa/effects.py)                               *)
(***************************************************************************)

\* Python numbers carry their type: isinstance(x, int) looks at it.
PyInt(n) == [t |-> "int", v |-> n]
PyFloat(n) == [t |-> "float", v |-> n]
isinstance_int(x) == x.t = "int"

\* The canonical built-in effect definitions, reduced to the fields that
\* set_effect reads or writes.
BuiltinEffects ==
    [Aurora  |-> [name |-> "Aurora", brightness |-> PyInt(100),
                  transition |-> PyInt(1500)],
     Flicker |-> [name |-> "Flicker", brightness |-> PyInt(100),
                  transition |-> PyInt(0)]]

(***************************************************************************)
(* Feature registry (kasa/module.py)                                       *)
(***************************************************************************)

\* The modules attached to the one device under consideration.
ModuleNames == {"M1", "M2"}

ascii_uppercase ==
    <<"A","B","C","D","E","F","G","H","I","J","K","L","M",
      "N","O","P","Q","R","S","T","U","V","W","X","Y","Z">>

ascii_lowercase ==
    <<"a","b","c","d","e","f","g","h","i","j","k","l","m",
      "n","o","p","q","r","s","t","u","v","w","x","y","z">>

\* str.lower() on one character
lower(c) ==
    IF \E i \in DOMAIN ascii_uppercase : ascii_uppercase[i] = c
    THEN ascii_lowercase[CHOOSE i \in DOMAIN ascii_uppercase : ascii_uppercase[i] = c]
    ELSE c

\* str.replace(old, new) for one-character old and new, on one character
replace(c, old, new) == IF c = old THEN new ELSE c

\* A plausible slip: apostrophes are dropped instead of being replaced.
RECURSIVE _slugified_name_strip(_)
_slugified_name_strip(name) ==
    IF name = <<>> THEN <<>>
    ELSE LET c == replace(lower(Head(name)), " ", "_")
         IN  (IF c = "'" THEN <<>> ELSE <<c>>) \o _slugified_name_strip(Tail(name))

\* name.lower().replace(" ", "_").replace("'", "_")
_slugified_name(name) ==
    [i \in DOMAIN name |-> replace(replace(lower(name[i]), " ", "_"), "'", "_")]

\* Feature names offered for registration (strings as character tuples).
Name_Total_Energy == <<"T","o","t","a","l"," ","E","n","e","r","g","y">>
Name_total_energy == <<"t","o","t","a","l","_","e","n","e","r","g","y">>
Name_Bobs_Lamp    == <<"B","o","b","'","s"," ","L","a","m","p">>
Name_bobs_lamp    == <<"b","o","b","s","_","l","a","m","p">>
Name_bob_s_lamp   == <<"b","o","b","_","s","_","l","a","m","p">>

FeatureNames ==
    {Name_Total_Energy, Name_total_energy, Name_Bobs_Lamp, Name_bobs_lamp,
     Name_bob_s_lamp}

\* A Feature, reduced to the field the registry reads.
Features == [name : FeatureNames]

DuplicateError == "KasaException: Duplicate name detected"

\* `feat_name in self._module_features`, wrongly looking at every module
InAnyModuleFeatures(m, feat_name) ==
    \E m2 \in ModuleNames : feat_name \in DOMAIN module_features[m2]

\* `feat_name in self._module_features`
InModuleFeatures(m, feat_name) == feat_name \in DOMAIN module_features[m]

\* A plausible slip: the entry is stored before the duplicate check.
_add_feature_overwrite(m, feature) ==
    LET feat_name == _slugified_name(feature.name)
    IN  /\ module_features' =
               [module_features EXCEPT ![m] = (feat_name :> feature) @@ @]
        /\ result' = [op |-> "_add_feature", module |-> m, feature |-> feature,
                      outcome |-> IF InModuleFeatures(m, feat_name)
                                  THEN DuplicateError ELSE "ok"]
        /\ UNCHANGED <<_info, modules, sys_info, EFFECT_MAPPING_V1, data, _last_update, in_flight, requests>>

\* Module._add_feature(feature) on module m
_add_feature(m, feature) ==
    LET feat_name == _slugified_name(feature.name)
    IN  /\ IF InModuleFeatures(m, feat_name)
           THEN /\ result' = [op |-> "_add_feature", module |-> m,
                              feature |-> feature, outcome |-> DuplicateError]
                /\ UNCHANGED module_features
           ELSE /\ module_features' =
                       [module_features EXCEPT ![m] = (feat_name :> feature) @@ @]
                /\ result' = [op |-> "_add_feature", module |-> m,
                              feature |-> feature, outcome |-> "ok"]
        /\ UNCHANGED <<_info, modules, sys_info, EFFECT_MAPPING_V1, data, _last_update, in_flight, requests>>

\* Module.__init__: every module starts with an empty registry of its own.
InitFeatures ==
    /\ module_features = [m \in ModuleNames |-> EmptyDict]
    /\ _info = EmptyDict
    /\ modules = EmptyDict
    /\ sys_info = None
    /\ EFFECT_MAPPING_V1 = BuiltinEffects
    /\ data = <<>>
    /\ _last_update = None
    /\ in_flight = None
    /\ result = NoCall
    /\ requests = <<>>

NextFeatures ==
    \E m \in ModuleNames, feature \in Features : _add_feature(m, feature)

SpecFeatures == InitFeatures /\ [][NextFeatures]_vars

(***************************************************************************)
(* Properties of the feature registry                                      *)
(***************************************************************************)

IsAddFeature(r) == r.op = "_add_feature"

C1_Step(m, feature) ==
    LET s == _slugified_name(feature.name)
    IN  /\ s \in DOMAIN module_features[m] =>
              /\ result'.outcome = DuplicateError
              /\ module_features' = module_features
        /\ s \notin DOMAIN module_features[m] =>
              /\ result'.outcome = "ok"
              /\ DOMAIN module_features'[m] = DOMAIN module_features[m] \cup {s}
              /\ module_features'[m][s] = feature
              /\ \A k \in DOMAIN module_features[m] :
                     module_features'[m][k] = module_features[m][k]
              /\ \A m2 \in ModuleNames \ {m} :
                     module_features'[m2] = module_features[m2]

\* C1: _add_feature with a slug that is already a key of the module's
\* registry fails with the duplicate-feature error and leaves every registry
\* exactly as it was; with a new slug it succeeds and the registry gains
\* exactly that one slug -> feature entry.
C1_AddFeatureDuplicateOrInsert ==
    [][IsAddFeature(result') => C1_Step(result'.module, result'.feature)]_vars

\* "Total Energy" is registered, a later "total_energy" was rejected.
C1_Witness ==
    /\ IsAddFeature(result)
    /\ result.outcome = DuplicateError
    /\ result.feature.name = Name_total_energy
    /\ Name_total_energy \in DOMAIN module_features[result.module]
    /\ module_features[result.module][Name_total_energy].name = Name_Total_Energy

\* C6 as stated: the union of the modules' registries of one device never
\* holds the same slug twice.
C6_CombinedRegistryUnique ==
    \A m1 \in ModuleNames : \A m2 \in ModuleNames \ {m1} :
        DOMAIN module_features[m1] \cap DOMAIN module_features[m2] = {}

\* C6 (amended): the duplicate check of _add_feature looks only at the
\* registry of the module it is called on: the call fails exactly when that
\* module already holds the slug, so a slug held by another module of the
\* device is accepted and the device's modules may share a slug.
C6_DuplicateCheckIsPerModule ==
    [][IsAddFeature(result') =>
          LET m == result'.module
              s == _slugified_name(result'.feature.name)
          IN  /\ (result'.outcome = DuplicateError)
                    <=> (s \in DOMAIN module_features[m])
              /\ ((\E m2 \in ModuleNames \ {m} : s \in DOMAIN module_features[m2])
                      /\ s \notin DOMAIN module_features[m])
                    => (result'.outcome = "ok" /\ s \in DOMAIN module_features'[m])
      ]_vars

\* M2 accepted "total_energy" although M1 already holds that slug.
C6_Witness ==
    /\ IsAddFeature(result)
    /\ result.outcome = "ok"
    /\ result.module = "M2"
    /\ result.feature.name = Name_total_energy
    /\ Name_total_energy \in DOMAIN module_features["M1"]
    /\ Name_total_energy \in DOMAIN module_features["M2"]

\* The key the claim describes: lowercase, spaces to "_", apostrophes removed.
ClaimedKey(name) ==
    SelectSeq([i \in DOMAIN name |-> IF name[i] = " " THEN "_" ELSE lower(name[i])],
              LAMBDA c : c # "'")

\* The key with the apostrophe turned into "_" like a space.
AmendedKey(name) ==
    [i \in DOMAIN name |-> IF name[i] \in {" ", "'"} THEN "_" ELSE lower(name[i])]

\* C7 as stated: every registry key is the feature's name lowercased, with
\* spaces replaced by "_" and apostrophes stripped.
C7_KeyStripsApostrophes ==
    \A m \in ModuleNames : \A k \in DOMAIN module_features[m] :
        k = ClaimedKey(module_features[m][k].name)

\* C7 (amended): the registry key of a feature is its name lowercased with
\* every space and every apostrophe replaced by "_" (same length as the
\* name); names that differ only by case, or by space/apostrophe versus
\* underscore, collide on registration, while a name that merely lacks the
\* apostrophe gets a different key.
C7_KeyReplacesApostrophes ==
    /\ \A m \in ModuleNames : \A k \in DOMAIN module_features[m] :
           k = AmendedKey(module_features[m][k].name)
    /\ IsAddFeature(result) =>
           LET k == AmendedKey(result.feature.name)
           IN  /\ k \in DOMAIN module_features[result.module]
               /\ (result.outcome = "ok")
                      => (module_features[result.module][k] = result.feature)

\* "Bob's Lamp" holds the key bob_s_lamp, "bob_s_lamp" was rejected and
\* "bobs_lamp" sits next to it under its own key.
C7_Witness ==
    /\ IsAddFeature(result)
    /\ result.outcome = DuplicateError
    /\ result.feature.name = Name_bob_s_lamp
    /\ Name_bob_s_lamp \in DOMAIN module_features[result.module]
    /\ module_features[result.module][Name_bob_s_lamp].name = Name_Bobs_Lamp
    /\ Name_bobs_lamp \in DOMAIN module_features[result.module]

(***************************************************************************)
(* SmartBulb facade (kasa/smart/smartbulb.py)                              *)
(***************************************************************************)

Devices == {"d1", "d2"}

\* dict.get(key, default)
get(d, key, default) == IF key \in DOMAIN d THEN d[key] ELSE default

\* Info blobs a device may report (get_device_info), by optional key.
HueParts == {EmptyDict, [hue |-> 120]}
ColorTempParts ==
    {EmptyDict, [color_temp_range |-> <<9000, 9000>>],
     [color_temp_range |-> <<2500, 6500>>]}
EffectParts == {EmptyDict, [dynamic_light_effect_enable |-> FALSE]}
InfoBlobs == {h @@ c @@ e : h \in HueParts, c \in ColorTempParts, e \in EffectParts}

\* Module sets a device may have been initialised with.
ModuleSets == {{}, {"Brightness"}}

\* Arguments the callers pass.
HueArgs == {PyInt(-1), PyInt(0), PyInt(360), PyInt(361), PyFloat(120)}
SaturationArgs == {PyInt(-1), PyInt(100), PyInt(101), PyFloat(50)}
ValueArgs == {None, PyInt(0), PyInt(50), PyInt(101)}
BrightnessArgs == {PyInt(0), PyInt(1), PyInt(50), PyInt(100), PyInt(101), PyFloat(50)}
TempArgs == {PyInt(2499), PyInt(2500), PyInt(6500), PyInt(6501), PyInt(9000)}

ErrNoColor == "KasaException: Bulb does not support color."
ErrNoColorTemp == "KasaException: Bulb does not support colortemp."
ErrNotDimmable == "KasaException: Bulb is not dimmable."
ErrTempNotSupported == "KasaException: Color temperature not supported"
ErrHue == "ValueError: Invalid hue value"
ErrSaturation == "ValueError: Invalid saturation value"
ErrBrightness == "ValueError: Invalid brightness value"
ErrTemp == "ValueError: Temperature should be between min and max"
ErrNotImplemented == "NotImplementedError"

\* What protocol.query() may answer: a response, or a transport/device error.
QueryReplies == {"ok", "DeviceError"}

\* An exception raised before anything is sent / a request handed to query().
Raise(e) == [outcome |-> e, sent |-> <<>>]
Query(request) == [outcome |-> "ok", sent |-> <<request>>]

\* SmartBulb.is_color
is_color(d) == "hue" \in DOMAIN _info[d]

\* A plausible slip: dimmability read from the blob's brightness key.
is_dimmable_from_info(d) == "brightness" \in DOMAIN _info[d]

\* SmartBulb.is_dimmable
is_dimmable(d) == "Brightness" \in modules[d]

\* A plausible slip: the range key alone decides.
is_variable_color_temp_present(d) == "color_temp_range" \in DOMAIN _info[d]

\* SmartBulb.is_variable_color_temp
is_variable_color_temp(d) ==
    /\ "color_temp_range" \in DOMAIN _info[d]
    /\ LET ct == _info[d]["color_temp_range"] IN ct[1] # ct[2]

\* SmartBulb.has_effects
has_effects(d) == "dynamic_light_effect_enable" \in DOMAIN _info[d]

\* SmartBulb.valid_temperature_range
valid_temperature_range(d) ==
    IF ~is_variable_color_temp(d)
    THEN [outcome |-> ErrTempNotSupported]
    ELSE LET ct_range == get(_info[d], "color_temp_range", <<0, 0>>)
         IN  [outcome |-> "ok", min |-> ct_range[1], max |-> ct_range[2]]

\* A plausible slip: 0 accepted as in the docstring's [0, 100].
_raise_for_invalid_brightness_from_zero(value) ==
    ~isinstance_int(value) \/ ~(0 <= value.v /\ value.v <= 100)

\* SmartBulb._raise_for_invalid_brightness: TRUE when it raises
_raise_for_invalid_brightness(value) ==
    ~isinstance_int(value) \/ ~(1 <= value.v /\ value.v <= 100)

\* The request payload of set_hsv
hsv_payload(hue, saturation, value) ==
    LET request_payload ==
            [color_temp |-> PyInt(0), hue |-> hue, saturation |-> saturation]
    IN  IF value # None
        THEN [brightness |-> value] @@ request_payload
        ELSE request_payload

\* A plausible slip: the values are validated before the capability guard.
set_hsv_validate_first(d, hue, saturation, value) ==
    IF ~isinstance_int(hue) \/ ~(0 <= hue.v /\ hue.v <= 360)
    THEN Raise(ErrHue)
    ELSE IF ~isinstance_int(saturation) \/ ~(0 <= saturation.v /\ saturation.v <= 100)
    THEN Raise(ErrSaturation)
    ELSE IF value # None /\ _raise_for_invalid_brightness(value)
    THEN Raise(ErrBrightness)
    ELSE IF ~is_color(d)
    THEN Raise(ErrNoColor)
    ELSE Query([set_device_info |-> hsv_payload(hue, saturation, value)])

\* SmartBulb.set_hsv up to the query
set_hsv(d, hue, saturation, value) ==
    IF ~is_color(d)
    THEN Raise(ErrNoColor)
    ELSE IF ~isinstance_int(hue) \/ ~(0 <= hue.v /\ hue.v <= 360)
    THEN Raise(ErrHue)
    ELSE IF ~isinstance_int(saturation) \/ ~(0 <= saturation.v /\ saturation.v <= 100)
    THEN Raise(ErrSaturation)
    ELSE IF value # None /\ _raise_for_invalid_brightness(value)
    THEN Raise(ErrBrightness)
    ELSE Query([set_device_info |-> hsv_payload(hue, saturation, value)])

\* SmartBulb.set_color_temp up to the query
set_color_temp(d, temp) ==
    IF ~is_variable_color_temp(d)
    THEN Raise(ErrNoColorTemp)
    ELSE LET range == valid_temperature_range(d)
         IN  IF range.outcome # "ok"
             THEN Raise(range.outcome)
             ELSE IF temp.v < range.min \/ temp.v > range.max
             THEN Raise(ErrTemp)
             ELSE Query([set_device_info |-> [color_temp |-> temp]])

\* SmartBulb.set_brightness up to the query
set_brightness(d, brightness) ==
    IF ~is_dimmable(d)
    THEN Raise(ErrNotDimmable)
    ELSE IF _raise_for_invalid_brightness(brightness)
    THEN Raise(ErrBrightness)
    ELSE Query([set_device_info |-> [brightness |-> brightness]])

\* SmartBulb.set_effect
set_effect_smart(d, effect) == Raise(ErrNotImplemented)

\* The outcome of one call: the exception raised before the query or, when
\* a request went out, what query() answered.
Outcome(call, record) ==
    /\ requests' = call.sent
    /\ \E reply \in QueryReplies :
           result' = [outcome |-> IF call.sent = <<>> THEN call.outcome ELSE reply]
                         @@ record

\* One call of an operation that assigns no attribute.
Call(call, record) ==
    /\ Outcome(call, record)
    /\ UNCHANGED <<module_features, _info, modules, sys_info, EFFECT_MAPPING_V1, data, _last_update, in_flight>>

SetHsv(d, hue, saturation, value) ==
    Call(set_hsv(d, hue, saturation, value),
         [op |-> "set_hsv", dev |-> d, hue |-> hue, saturation |-> saturation,
          value |-> value])

SetColorTemp(d, temp) ==
    Call(set_color_temp(d, temp), [op |-> "set_color_temp", dev |-> d, temp |-> temp])

SetBrightness(d, brightness) ==
    Call(set_brightness(d, brightness),
         [op |-> "set_brightness", dev |-> d, brightness |-> brightness])

SetEffectSmart(d, effect) ==
    Call(set_effect_smart(d, effect),
         [op |-> "set_effect", dev |-> d, effect |-> effect])

\* Reading the four capability properties of device d
ReadFlags(d) ==
    /\ result' = [op |-> "flags", dev |-> d, is_color |-> is_color(d),
                  is_dimmable |-> is_dimmable(d),
                  is_variable_color_temp |-> is_variable_color_temp(d),
                  has_effects |-> has_effects(d)]
    /\ requests' = <<>>
    /\ UNCHANGED <<module_features, _info, modules, sys_info, EFFECT_MAPPING_V1, data, _last_update, in_flight>>

\* Reading the valid_temperature_range property of device d
ReadValidTemperatureRange(d) ==
    /\ result' = [op |-> "valid_temperature_range", dev |-> d]
                     @@ valid_temperature_range(d)
    /\ requests' = <<>>
    /\ UNCHANGED <<module_features, _info, modules, sys_info, EFFECT_MAPPING_V1, data, _last_update, in_flight>>

\* A successful update(): the device's info blob is replaced wholesale.
UpdateInfo(d, blob) ==
    /\ _info' = [_info EXCEPT ![d] = blob]
    /\ result' = [op |-> "update", dev |-> d, outcome |-> "ok"]
    /\ requests' = <<[get_device_info |-> None]>>
    /\ UNCHANGED <<module_features, modules, sys_info, EFFECT_MAPPING_V1, data, _last_update, in_flight>>

BulbStep(d) ==
    \/ \E blob \in InfoBlobs : UpdateInfo(d, blob)
    \/ ReadFlags(d)
    \/ ReadValidTemperatureRange(d)
    \/ \E h \in HueArgs, s \in SaturationArgs, v \in ValueArgs : SetHsv(d, h, s, v)
    \/ \E temp \in TempArgs : SetColorTemp(d, temp)
    \/ \E b \in BrightnessArgs : SetBrightness(d, b)
    \/ SetEffectSmart(d, "L1")

\* One bulb, constructed and with its modules initialised.
InitBulb ==
    /\ module_features = [m \in ModuleNames |-> EmptyDict]
    /\ _info = [d \in {"d1"} |-> EmptyDict]
    /\ modules \in [{"d1"} -> ModuleSets]
    /\ sys_info = None
    /\ EFFECT_MAPPING_V1 = BuiltinEffects
    /\ data = <<>>
    /\ _last_update = None
    /\ in_flight = None
    /\ result = NoCall
    /\ requests = <<>>

NextBulb == BulbStep("d1")

SpecBulb == InitBulb /\ [][NextBulb]_vars

\* Two bulbs whose info blobs are replaced and whose flags are read.
InitFlags ==
    /\ module_features = [m \in ModuleNames |-> EmptyDict]
    /\ _info = [d \in Devices |-> EmptyDict]
    /\ modules \in [Devices -> ModuleSets]
    /\ sys_info = None
    /\ EFFECT_MAPPING_V1 = BuiltinEffects
    /\ data = <<>>
    /\ _last_update = None
    /\ in_flight = None
    /\ result = NoCall
    /\ requests = <<>>

NextFlags ==
    \E d \in Devices :
        \/ \E blob \in InfoBlobs : UpdateInfo(d, blob)
        \/ ReadFlags(d)

SpecFlags == InitFlags /\ [][NextFlags]_vars

(***************************************************************************)
(* Properties of the SmartBulb facade                                      *)
(***************************************************************************)

\* C2: on a dimmable bulb set_brightness(b) with b not an integer in 1..100
\* fails with the validation error and sends nothing; with b an integer in
\* 1..100 exactly one request goes out and it carries only brightness = b.
C2_SetBrightnessValidatesBeforeQuery ==
    (result.op = "set_brightness" /\ "Brightness" \in modules[result.dev]) =>
        LET b == result.brightness
        IN  IF b.t = "int" /\ b.v \in 1..100
            THEN /\ requests = <<[set_device_info |-> [brightness |-> b]]>>
                 /\ result.outcome \in QueryReplies
            ELSE /\ result.outcome = ErrBrightness
                 /\ requests = <<>>

\* set_brightness(0) on a dimmable bulb was rejected.
C2_Witness ==
    /\ result.op = "set_brightness"
    /\ "Brightness" \in modules[result.dev]
    /\ result.brightness = PyInt(0)
    /\ result.outcome = ErrBrightness
    /\ requests = <<>>

\* C3: set_hsv on a device whose info blob has no "hue" key fails with the
\* capability error, whatever hue, saturation and value are, and sends
\* nothing.
C3_SetHsvGuardBeforeValidation ==
    (result.op = "set_hsv" /\ "hue" \notin DOMAIN _info[result.dev]) =>
        /\ result.outcome = ErrNoColor
        /\ requests = <<>>

\* set_hsv(361, 50.0, 101) on a bulb without "hue" got the capability error.
C3_Witness ==
    /\ result.op = "set_hsv"
    /\ "hue" \notin DOMAIN _info[result.dev]
    /\ result.hue = PyInt(361)
    /\ result.saturation = PyFloat(50)
    /\ result.value = PyInt(101)
    /\ result.outcome = ErrNoColor

\* "range present AND min != max" on a blob
RangePresentAndVariable(blob) ==
    /\ "color_temp_range" \in DOMAIN blob
    /\ blob["color_temp_range"][1] # blob["color_temp_range"][2]

\* C4: is_variable_color_temp is true exactly when the blob contains
\* color_temp_range with min # max; valid_temperature_range returns the
\* reported (min, max) then and raises the capability error otherwise, so
\* every range it returns has min # max.
C4_VariableColorTempNeedsDistinctBounds ==
    /\ result.op = "flags" =>
           result.is_variable_color_temp = RangePresentAndVariable(_info[result.dev])
    /\ result.op = "valid_temperature_range" =>
           IF RangePresentAndVariable(_info[result.dev])
           THEN /\ result.outcome = "ok"
                /\ result.min = _info[result.dev]["color_temp_range"][1]
                /\ result.max = _info[result.dev]["color_temp_range"][2]
                /\ result.min # result.max
           ELSE result.outcome = ErrTempNotSupported

\* valid_temperature_range raised on a device reporting [9000, 9000].
C4_Witness ==
    /\ result.op = "valid_temperature_range"
    /\ "color_temp_range" \in DOMAIN _info[result.dev]
    /\ _info[result.dev]["color_temp_range"] = <<9000, 9000>>
    /\ result.outcome = ErrTempNotSupported

\* The four flags a read of device d returns
Flags(d) == <<is_color(d), is_dimmable(d), is_variable_color_temp(d), has_effects(d)>>

\* The four flags the last read returned
FlagsRead ==
    <<result.is_color, result.is_dimmable, result.is_variable_color_temp,
      result.has_effects>>

\* The three flags that are presence/shape checks on the blob
FlagsReadMatchBlob ==
    result.op = "flags" =>
        LET blob == _info[result.dev]
        IN  /\ result.is_color = ("hue" \in DOMAIN blob)
            /\ result.has_effects = ("dynamic_light_effect_enable" \in DOMAIN blob)
            /\ result.is_variable_color_temp = RangePresentAndVariable(blob)

\* C8 as stated: every flag is a function of the current info blob, so two
\* devices with equal info blobs report equal flags.
C8_FlagsAreFunctionOfBlob ==
    /\ FlagsReadMatchBlob
    /\ result.op = "flags" =>
           \A d2 \in DOMAIN _info :
               _info[d2] = _info[result.dev] => Flags(d2) = FlagsRead

\* C8 (amended): is_color, is_variable_color_temp and has_effects are
\* re-evaluated on every read from the info blob current at the read;
\* is_dimmable is re-evaluated on every read too, but from the device's
\* module registry ("Brightness" present), not from the blob; two devices
\* with equal info blobs and equal module sets report equal flags.
C8_FlagsFromBlobAndModules ==
    /\ FlagsReadMatchBlob
    /\ result.op = "flags" =>
           result.is_dimmable = ("Brightness" \in modules[result.dev])
    /\ result.op = "flags" =>
           \A d2 \in DOMAIN _info :
               (_info[d2] = _info[result.dev] /\ modules[d2] = modules[result.dev])
                   => Flags(d2) = FlagsRead

\* After replacements both bulbs hold the same non-empty blob, d1 reads as
\* dimmable and d2, without the Brightness module, does not.
C8_Witness ==
    /\ result.op = "flags"
    /\ result.dev = "d1"
    /\ _info["d1"] = _info["d2"]
    /\ "hue" \in DOMAIN _info["d1"]
    /\ result.is_color
    /\ result.is_dimmable
    /\ ~is_dimmable("d2")

(***************************************************************************)
(* IotLightStrip effects (kasa/iot/iotlightstrip.py)                       *)
(***************************************************************************)

\* sys_info payloads a light strip may report
StripInfos ==
    {[length |-> PyInt(16)],
     [length |-> PyInt(16), lighting_effect_state |-> [enable |-> PyInt(0)]]}

EffectArgs == {"Aurora", "Flicker", "Sparkle"}
EffectBrightnessArgs == {None, PyInt(50)}
EffectTransitionArgs == {None, PyInt(500)}
CustomEffects ==
    {[name |-> "Custom", brightness |-> PyInt(70), transition |-> PyInt(10)]}

ErrNeedUpdate == "KasaException: You need to await update() to access the data"
ErrNotBuiltin == "KasaException: The effect is not a built in effect."
ErrNoEffects == "KasaException: Bulb does not support effects."

\* @requires_update: TRUE when the decorator raises
requires_update_raises == sys_info = None

\* IotBulb.has_effects of the light strip
strip_has_effects == "lighting_effect_state" \in DOMAIN sys_info

\* IotLightStrip.set_custom_effect up to the query
set_custom_effect(effect_dict) ==
    IF requires_update_raises
    THEN Raise(ErrNeedUpdate)
    ELSE IF ~strip_has_effects
    THEN Raise(ErrNoEffects)
    ELSE Query([service |-> "smartlife.iot.lighting_effect",
                method |-> "set_lighting_effect", params |-> effect_dict])

\* effect_dict after the two conditional item assignments of set_effect
with_overrides(effect_dict, brightness, transition) ==
    [effect_dict EXCEPT
        !.brightness = IF brightness # None THEN brightness ELSE @,
        !.transition = IF transition # None THEN transition ELSE @]

\* IotLightStrip.set_effect: effect_dict is the catalog's own entry, so the
\* item assignments write into EFFECT_MAPPING_V1 before set_custom_effect
\* evaluates its guard.
SetEffect(effect, brightness, transition) ==
    LET record == [op |-> "set_effect", dev |-> "strip", effect |-> effect,
                   brightness |-> brightness, transition |-> transition]
    IN  IF requires_update_raises
        THEN Call(Raise(ErrNeedUpdate), record)
        ELSE IF effect \notin DOMAIN EFFECT_MAPPING_V1
        THEN Call(Raise(ErrNotBuiltin), record)
        ELSE LET effect_dict ==
                     with_overrides(EFFECT_MAPPING_V1[effect], brightness, transition)
             IN  /\ EFFECT_MAPPING_V1' =
                        [EFFECT_MAPPING_V1 EXCEPT ![effect] = effect_dict]
                 /\ Outcome(set_custom_effect(effect_dict), record)
                 /\ UNCHANGED <<module_features, _info, modules, sys_info, data, _last_update, in_flight>>

\* IotLightStrip.set_custom_effect called by the user
SetCustomEffect(effect_dict) ==
    Call(set_custom_effect(effect_dict),
         [op |-> "set_custom_effect", dev |-> "strip", effect_dict |-> effect_dict])

\* A successful update() of the strip: sys_info is replaced wholesale.
UpdateStrip(info) ==
    /\ sys_info' = info
    /\ result' = [op |-> "update", dev |-> "strip", outcome |-> "ok"]
    /\ requests' = <<[system |-> [get_sysinfo |-> None]]>>
    /\ UNCHANGED <<module_features, _info, modules, EFFECT_MAPPING_V1, data, _last_update, in_flight>>

StripStep ==
    \/ \E info \in StripInfos : UpdateStrip(info)
    \/ \E effect \in EffectArgs, b \in EffectBrightnessArgs,
          tr \in EffectTransitionArgs : SetEffect(effect, b, tr)
    \/ \E effect_dict \in CustomEffects : SetCustomEffect(effect_dict)

\* One bulb and one light strip, sharing the process-wide effect catalog.
InitFacade == InitBulb

NextFacade ==
    \/ BulbStep("d1")
    \/ StripStep

SpecFacade == InitFacade /\ [][NextFacade]_vars

(***************************************************************************)
(* Properties of the write operations                                      *)
(***************************************************************************)

WriteOps ==
    {"set_hsv", "set_color_temp", "set_brightness", "set_effect",
     "set_custom_effect"}

CapabilityErrors ==
    {ErrNoColor, ErrNoColorTemp, ErrNotDimmable, ErrTempNotSupported, ErrNoEffects}

ValidationErrors == {ErrHue, ErrSaturation, ErrBrightness, ErrTemp, ErrNotBuiltin}

\* C5: a write operation whose capability guard or argument validation
\* fails raises before any request reaches query() and changes no state:
\* not the info blobs, not the registries, not the built-in effect catalog.
C5_FailedWriteHasNoEffect ==
    [][(result'.op \in WriteOps
            /\ result'.outcome \in CapabilityErrors \cup ValidationErrors)
          => /\ requests' = <<>>
             /\ UNCHANGED <<module_features, _info, modules, sys_info,
                            EFFECT_MAPPING_V1, data, _last_update, in_flight>>
      ]_vars

(***************************************************************************)
(* Emeter statistics conversion (kasa/iot/modules/emeter.py)               *)
(***************************************************************************)

\* Longest statistics series considered.
MaxLen == 3

\* Largest day / month number appearing in a series.
MaxKey == 2

\* Energy values are exact rationals num/den in lowest terms.
RECURSIVE GCD(_, _)
GCD(a, b) == IF b = 0 THEN a ELSE GCD(b, a % b)

Rat(n, d) == LET g == GCD(n, d) IN [num |-> n \div g, den |-> d \div g]

\* x * y
Mul(x, y) == Rat(x.num * y.num, x.den * y.den)

\* The energy part of a record: watt-hours (int) or kilowatt-hours (float).
EnergyParts ==
    {[energy_wh |-> Rat(1000, 1)], [energy_wh |-> Rat(2000, 1)],
     [energy |-> Rat(5, 1)]}

\* The records of a day_list ("day") or a month_list ("month").
StatRecords(entry_key) ==
    {(entry_key :> PyInt(k)) @@ e : k \in 1..MaxKey, e \in EnergyParts}

StatSeries(entry_key) ==
    UNION {[1..n -> StatRecords(entry_key)] : n \in 0..MaxLen}

\* The day or month asked for; MaxKey + 1 appears in no record.
KeyArgs == {PyInt(k) : k \in 1..(MaxKey + 1)}

\* The field the records of the series at hand are keyed by.
EntryKeys(series) ==
    IF series = <<>> THEN {"day", "month"}
    ELSE {"day", "month"} \cap DOMAIN series[1]

\* A plausible slip: the watt-hour series is scaled up instead of down.
scale_inverted(first, kwh) ==
    IF "energy_wh" \in DOMAIN first
    THEN (IF kwh THEN Rat(1000, 1) ELSE Rat(1, 1))
    ELSE (IF ~kwh THEN Rat(1000, 1) ELSE Rat(1, 1))

\* `scale` as set from data[0] and kwh
scale(first, kwh) ==
    IF "energy_wh" \in DOMAIN first
    THEN (IF kwh THEN Rat(1, 1000) ELSE Rat(1, 1))
    ELSE (IF ~kwh THEN Rat(1000, 1) ELSE Rat(1, 1))

\* `value_key` as set from data[0]
value_key(first) == IF "energy_wh" \in DOMAIN first THEN "energy_wh" ELSE "energy"

\* {entry[entry_key]: entry[value_key] * scale for entry in data[:n]}
RECURSIVE all_entries(_, _, _, _, _)
all_entries(series, entry_key, vkey, sc, n) ==
    IF n = 0 THEN EmptyDict
    ELSE (series[n][entry_key] :> Mul(series[n][vkey], sc))
             @@ all_entries(series, entry_key, vkey, sc, n - 1)

\* A plausible slip: the scan runs from the front of the list.
RECURSIVE forward_lookup(_, _, _, _, _, _)
forward_lookup(series, entry_key, vkey, sc, key, i) ==
    LET j == Len(series) + 1 - i
    IN  IF i = 0 THEN [outcome |-> "ok", value |-> EmptyDict]
        ELSE IF series[j][entry_key] = key
        THEN (IF vkey \in DOMAIN series[j]
              THEN [outcome |-> "ok",
                    value |-> (series[j][entry_key] :> Mul(series[j][vkey], sc))]
              ELSE [outcome |-> "KeyError"])
        ELSE forward_lookup(series, entry_key, vkey, sc, key, i - 1)

\* for entry in reversed(data[:i]): return the first entry that matches
RECURSIVE reversed_lookup(_, _, _, _, _, _)
reversed_lookup(series, entry_key, vkey, sc, key, i) ==
    IF i = 0 THEN [outcome |-> "ok", value |-> EmptyDict]
    ELSE IF series[i][entry_key] = key
    THEN (IF vkey \in DOMAIN series[i]
          THEN [outcome |-> "ok",
                value |-> (series[i][entry_key] :> Mul(series[i][vkey], sc))]
          ELSE [outcome |-> "KeyError"])
    ELSE reversed_lookup(series, entry_key, vkey, sc, key, i - 1)

\* Emeter._convert_stat_data(data, entry_key, kwh, key)
_convert_stat_data(series, entry_key, kwh, key) ==
    IF series = <<>>
    THEN [outcome |-> "ok", value |-> EmptyDict]
    ELSE LET sc == scale(series[1], kwh)
             vkey == value_key(series[1])
         IN  IF key = None
             THEN (IF \E i \in DOMAIN series : vkey \notin DOMAIN series[i]
                   THEN [outcome |-> "KeyError"]
                   ELSE [outcome |-> "ok",
                         value |-> all_entries(series, entry_key, vkey, sc, Len(series))])
             ELSE reversed_lookup(series, entry_key, vkey, sc, key, Len(series))

\* A direct call of _convert_stat_data on the series at hand; key = None
\* is what get_daystat and get_monthstat pass.
ConvertStatData(entry_key, kwh, key) ==
    /\ entry_key \in EntryKeys(data)
    /\ result' = [op |-> "_convert_stat_data", entry_key |-> entry_key,
                  kwh |-> kwh, key |-> key]
                     @@ _convert_stat_data(data, entry_key, kwh, key)
    /\ requests' = <<>>
    /\ UNCHANGED <<module_features, _info, modules, sys_info, EFFECT_MAPPING_V1, data, _last_update, in_flight>>

\* raw_data -> data.get(now), shared by emeter_today and emeter_this_month
current_period(series, entry_key, now) ==
    LET converted == _convert_stat_data(series, entry_key, TRUE, now)
    IN  IF converted.outcome # "ok" THEN converted
        ELSE [outcome |-> "ok", value |-> get(converted.value, now, None)]

\* Emeter.emeter_today, read on the day `today`
EmeterToday(today) ==
    /\ "day" \in EntryKeys(data)
    /\ result' = [op |-> "emeter_today", now |-> today]
                     @@ current_period(data, "day", today)
    /\ requests' = <<>>
    /\ UNCHANGED <<module_features, _info, modules, sys_info, EFFECT_MAPPING_V1, data, _last_update, in_flight>>

\* Emeter.emeter_this_month, read in the month `current_month`
EmeterThisMonth(current_month) ==
    /\ "month" \in EntryKeys(data)
    /\ result' = [op |-> "emeter_this_month", now |-> current_month]
                     @@ current_period(data, "month", current_month)
    /\ requests' = <<>>
    /\ UNCHANGED <<module_features, _info, modules, sys_info, EFFECT_MAPPING_V1, data, _last_update, in_flight>>

\* The emeter holds one raw series, a day list or a month list.
InitEmeter ==
    /\ module_features = [m \in ModuleNames |-> EmptyDict]
    /\ _info = EmptyDict
    /\ modules = EmptyDict
    /\ sys_info = None
    /\ EFFECT_MAPPING_V1 = BuiltinEffects
    /\ data \in StatSeries("day") \cup StatSeries("month")
    /\ _last_update = None
    /\ in_flight = None
    /\ result = NoCall
    /\ requests = <<>>

NextEmeter ==
    \/ \E entry_key \in {"day", "month"}, kwh \in BOOLEAN, key \in KeyArgs \cup {None} :
           ConvertStatData(entry_key, kwh, key)
    \/ \E today \in KeyArgs : EmeterToday(today)
    \/ \E current_month \in KeyArgs : EmeterThisMonth(current_month)

SpecEmeter == InitEmeter /\ [][NextEmeter]_vars

(***************************************************************************)
(* Properties of the statistics conversion                                 *)
(***************************************************************************)

\* Every record carries its energy in the same unit as the first one.
UniformUnits(series) ==
    \A i \in DOMAIN series :
        ("energy_wh" \in DOMAIN series[i]) = ("energy_wh" \in DOMAIN series[1])

\* The energy value a record carries
Energy(rec) == IF "energy_wh" \in DOMAIN rec THEN rec["energy_wh"] ELSE rec["energy"]

\* 1/1000 for a wh series when kwh is wanted, 1000 for a kwh series when wh
\* is wanted, 1 when the units already match
Factor(series, kwh) ==
    LET wh == "energy_wh" \in DOMAIN series[1]
    IN  IF wh /\ kwh THEN Rat(1, 1000)
        ELSE IF ~wh /\ ~kwh THEN Rat(1000, 1)
        ELSE Rat(1, 1)

\* Positions of the records keyed k
Matches(series, entry_key, k) == {i \in DOMAIN series : series[i][entry_key] = k}

\* The last record keyed k
LastMatch(series, entry_key, k) ==
    series[CHOOSE i \in Matches(series, entry_key, k) :
               \A j \in Matches(series, entry_key, k) : j <= i]

Restrict(f, S) == [x \in DOMAIN f \cap S |-> f[x]]

IsConvert(r) == r.op = "_convert_stat_data"

\* C9: without a key, the empty series gives the empty mapping; otherwise
\* the unit is taken from the first record and the result maps every
\* record's entry_key value to its energy scaled by the one factor (1/1000,
\* 1000 or 1), a later record overwriting an earlier one with the same key.
C9_WholeSeriesScaledUniformly ==
    (IsConvert(result) /\ result.key = None) =>
        IF data = <<>>
        THEN result.outcome = "ok" /\ result.value = EmptyDict
        ELSE UniformUnits(data) =>
                 /\ result.outcome = "ok"
                 /\ DOMAIN result.value =
                        {data[i][result.entry_key] : i \in DOMAIN data}
                 /\ \A k \in DOMAIN result.value :
                        result.value[k] =
                            Mul(Energy(LastMatch(data, result.entry_key, k)),
                                Factor(data, result.kwh))

\* [{day:1, energy_wh:1000}, {day:2, energy_wh:2000}] with kwh=True gave
\* {1: 1.0, 2: 2.0}.
C9_Witness ==
    /\ IsConvert(result)
    /\ result.key = None
    /\ result.kwh
    /\ data = <<[day |-> PyInt(1), energy_wh |-> Rat(1000, 1)],
                [day |-> PyInt(2), energy_wh |-> Rat(2000, 1)]>>
    /\ result.outcome = "ok"
    /\ result.value = (PyInt(1) :> Rat(1, 1)) @@ (PyInt(2) :> Rat(2, 1))

\* C10: with a key k, a series of uniform units gives the one-entry mapping
\* {k: scaled energy of the last record keyed k}, or the empty mapping when
\* no record is keyed k; this is the whole-series result restricted to k.
\* emeter_today and emeter_this_month return that entry's value in kWh, or
\* None.
C10_KeyLookupIsRestrictionOfWholeSeries ==
    /\ (IsConvert(result) /\ result.key # None /\ UniformUnits(data)) =>
           LET k == result.key
               whole == _convert_stat_data(data, result.entry_key, result.kwh, None)
           IN  /\ result.outcome = "ok"
               /\ IF Matches(data, result.entry_key, k) = {}
                  THEN result.value = EmptyDict
                  ELSE result.value =
                           (k :> Mul(Energy(LastMatch(data, result.entry_key, k)),
                                     Factor(data, result.kwh)))
               /\ whole.outcome = "ok"
               /\ result.value = Restrict(whole.value, {k})
    /\ (result.op \in {"emeter_today", "emeter_this_month"} /\ UniformUnits(data)) =>
           LET entry_key == IF result.op = "emeter_today" THEN "day" ELSE "month"
           IN  /\ result.outcome = "ok"
               /\ IF Matches(data, entry_key, result.now) = {}
                  THEN result.value = None
                  ELSE result.value =
                           Mul(Energy(LastMatch(data, entry_key, result.now)),
                               Factor(data, TRUE))

\* [{month:1, energy:5.0}, {month:2, energy:5.0}] with kwh=False, key=2
\* gave {2: 5000.0}.
C10_Witness ==
    /\ IsConvert(result)
    /\ result.key = PyInt(2)
    /\ ~result.kwh
    /\ data = <<[month |-> PyInt(1), energy |-> Rat(5, 1)],
                [month |-> PyInt(2), energy |-> Rat(5, 1)]>>
    /\ result.outcome = "ok"
    /\ result.value = (PyInt(2) :> Rat(5000, 1))

(***************************************************************************)
(* Update/polling aggregator (Device.update over Module.query/Module.data) *)
(***************************************************************************)

\* Response slices the device may return for one module's query.
ModuleSlices == {[value |-> PyInt(1)], [value |-> PyInt(2)]}

\* The baseline info query every update carries.
BaselineKey == "get_device_info"

\* Module.query() of module m: the fragment it adds to the poll.
query(m) == (m :> None)

\* The fragments of all registered modules merged with the baseline query.
merged_request == (BaselineKey :> None) @@ [m \in ModuleNames |-> query(m)[m]]

\* Responses matching the merged request: one blob, one slice per module.
Responses ==
    {(BaselineKey :> blob) @@ slices :
         blob \in InfoBlobs, slices \in [ModuleNames -> ModuleSlices]}

\* How the round-trip may fail: at the transport, or rejected by the device.
UpdateErrors == {"TimeoutError", "DeviceError"}

ErrNoData == "KasaException: You need to await update() to access the data"

\* Module.data of module m
module_data(m) ==
    IF _last_update = None
    THEN [outcome |-> ErrNoData]
    ELSE [outcome |-> "ok", value |-> _last_update[m]]

\* update() up to its only suspension point: the merged request is handed
\* to query().  A second update is not started while one is in flight.
update_send(d) ==
    /\ in_flight = None
    /\ in_flight' = merged_request
    /\ requests' = <<merged_request>>
    /\ result' = [op |-> "update", dev |-> d, outcome |-> "pending"]
    /\ UNCHANGED <<module_features, _info, modules, sys_info, EFFECT_MAPPING_V1, data, _last_update>>

\* update() resumed with a response: the blob and every module's slice are
\* replaced together.
update_succeeded(d, response) ==
    /\ in_flight # None
    /\ DOMAIN response = DOMAIN in_flight
    /\ _info' = [_info EXCEPT ![d] = response[BaselineKey]]
    /\ _last_update' = [m \in ModuleNames |-> response[m]]
    /\ in_flight' = None
    /\ result' = [op |-> "update", dev |-> d, outcome |-> "ok",
                  response |-> response]
    /\ UNCHANGED <<module_features, modules, sys_info, EFFECT_MAPPING_V1, data, requests>>

\* A plausible slip: a failed round invalidates the modules' data.
update_failed_invalidates(d, error) ==
    /\ in_flight # None
    /\ in_flight' = None
    /\ _last_update' = None
    /\ result' = [op |-> "update", dev |-> d, outcome |-> error]
    /\ UNCHANGED <<module_features, _info, modules, sys_info, EFFECT_MAPPING_V1, data, requests>>

\* update() resumed with an error from query(): the error propagates and
\* nothing is assigned.
update_failed(d, error) ==
    /\ in_flight # None
    /\ in_flight' = None
    /\ result' = [op |-> "update", dev |-> d, outcome |-> error]
    /\ UNCHANGED <<module_features, _info, modules, sys_info, EFFECT_MAPPING_V1, data, _last_update, requests>>

\* Reading Module.data of module m
ReadData(m) ==
    /\ result' = [op |-> "data", module |-> m] @@ module_data(m)
    /\ requests' = <<>>
    /\ UNCHANGED <<module_features, _info, modules, sys_info, EFFECT_MAPPING_V1, data, _last_update, in_flight>>

\* One bulb with its modules, polled; readers run between the steps.
InitUpdate == InitBulb

NextUpdate ==
    \/ update_send("d1")
    \/ \E response \in Responses : update_succeeded("d1", response)
    \/ \E error \in UpdateErrors : update_failed("d1", error)
    \/ \E m \in ModuleNames : ReadData(m)
    \/ ReadFlags("d1")

SpecUpdate == InitUpdate /\ [][NextUpdate]_vars

(***************************************************************************)
(* Properties of update()                                                  *)
(***************************************************************************)

DeviceState == <<_info, _last_update, modules, module_features>>

\* C11: an update() that fails at the transport or device boundary leaves
\* the info blob, every module's data slice and every capability flag as
\* they were; they change only when an update succeeds, and then the blob
\* and all slices come from that one response, so a reader sees either the
\* earlier round or the new one, never a mixture.
C11_FailedUpdateLeavesStateUntouched ==
    [][/\ (result'.op = "update" /\ result'.outcome \in UpdateErrors) =>
              /\ DeviceState' = DeviceState
              /\ \A d \in DOMAIN _info : Flags(d)' = Flags(d)
       /\ DeviceState' # DeviceState =>
              /\ result'.op = "update"
              /\ result'.outcome = "ok"
              /\ _info'[result'.dev] = result'.response[BaselineKey]
              /\ \A m \in ModuleNames : _last_update'[m] = result'.response[m]
       /\ (result'.op = "data" /\ _last_update' # None) =>
              /\ result'.outcome = "ok"
              /\ result'.value = _last_update'[result'.module]
      ]_vars

\* An update failed with a timeout after an earlier round had succeeded;
\* the blob and the two modules' slices of that round are still there.
C11_Witness ==
    /\ result.op = "update"
    /\ result.outcome = "TimeoutError"
    /\ in_flight = None
    /\ _last_update # None
    /\ _last_update["M1"] # _last_update["M2"]
    /\ "hue" \in DOMAIN _info["d1"]

(***************************************************************************)
(* Properties of IotLightStrip.set_effect                                  *)
(***************************************************************************)

\* One light strip, constructed and not yet updated, and the process-wide
\* effect catalog as imported.
InitStrip ==
    /\ module_features = [m \in ModuleNames |-> EmptyDict]
    /\ _info = EmptyDict
    /\ modules = EmptyDict
    /\ sys_info = None
    /\ EFFECT_MAPPING_V1 = BuiltinEffects
    /\ data = <<>>
    /\ _last_update = None
    /\ in_flight = None
    /\ result = NoCall
    /\ requests = <<>>

NextStrip == StripStep

SpecStrip == InitStrip /\ [][NextStrip]_vars

\* The canonical built-in definition of `effect` with brightness replaced
\* only if given and transition replaced only if given
CanonicalWithOverrides(effect, brightness, transition) ==
    [name |-> BuiltinEffects[effect].name,
     brightness |-> IF brightness = None
                    THEN BuiltinEffects[effect].brightness ELSE brightness,
     transition |-> IF transition = None
                    THEN BuiltinEffects[effect].transition ELSE transition]

\* C12: in any sequence of set_effect calls, a call with a built-in name
\* forwards the canonical definition of that effect with only the overrides
\* given in this call (the effect-specific defaults otherwise, whatever
\* earlier calls passed), and the shared catalog EFFECT_MAPPING_V1 holds the
\* same definitions after the call as before it.
C12_SetEffectForwardsCanonicalDefinition ==
    [][result'.op = "set_effect" =>
          /\ EFFECT_MAPPING_V1' = EFFECT_MAPPING_V1
          /\ requests' # <<>> =>
                 requests'[1].params =
                     CanonicalWithOverrides(result'.effect, result'.brightness,
                                            result'.transition)
      ]_vars

====
